---- MODULE Spec2Model ----
(***************************************************************************)
(* A model of the Oura MCP bridge: the process entry point (index.ts) and  *)
(* the provider (provider/oura_provider.ts) that registers one resource    *)
(* per catalog entry and one tool per date-ranged entry and forwards each  *)
(* invocation to the upstream HTTP API.                                    *)
(*                                                                         *)
(* Text is modelled as tuples of strings: a template literal               *)
(* `a ${x} b` is the tuple <<"a ", x, " b">>, so that "the message         *)
(* contains x" is membership of x among the parts.                         *)
(***************************************************************************)
EXTENDS Integers, Sequences, FiniteSets, TLC

VARIABLES
    env,            \* process.env: the three credential variables
    phase,          \* "loaded" | "connecting" | "connected" | "exited"
    exitCode,       \* -1 while the process runs, else the status passed to process.exit
    stdout,         \* what reached the primary output (the transport stream)
    stderr,         \* what reached the diagnostic channel
    attempts,       \* history: every write a caller attempted, with the call used
    provider,       \* OuraProvider: constructed?, its catalog, resources, tools, auth mode
    connectCalled,  \* provider.getServer().connect(transport) has been called
    inv,            \* the handler invocations, one per slot
    auth,           \* OuraAuth's cached OAuth token and the exchanges in flight
    clock,          \* the wall clock, [day |-> days since 1970-01-01, ms |-> ms of the day]
    fatal           \* history: the value given to the last fatal handler that ran

vars == <<env, phase, exitCode, stdout, stderr, attempts, provider,
          connectCalled, inv, auth, clock, fatal>>

(***************************************************************************)
(* Bounds                                                                  *)
(***************************************************************************)
MaxInv == 2          \* concurrent invocations in SpecConc
MaxReq == 3          \* concurrent header requests in SpecAuth
MaxExchanges == 2    \* token exchanges one run performs
MaxClockLag == 1     \* ms the clock may advance between two reads in one handler
MaxWrites == 2       \* writes one run of SpecOut attempts

Slots == 1 .. (IF MaxInv > MaxReq THEN MaxInv ELSE MaxReq)

(***************************************************************************)
(* Helpers                                                                 *)
(***************************************************************************)
Range(s) == { s[k] : k \in 1 .. Len(s) }

UNDEF == "<undefined>"

\* JavaScript truthiness of an optional string: undefined and '' are falsy.
Truthy(s) == s # UNDEF /\ s # ""

\* `x || d` on an optional string.
OrElse(s, d) == IF Truthy(s) THEN s ELSE d

MsPerDay == 86400000

(***************************************************************************)
(* Configuration (index.ts)                                                *)
(***************************************************************************)
EnvValues == {UNDEF, "", "secret"}

Envs == [pat : EnvValues, cid : EnvValues, csec : EnvValues]

\* const config = { auth: { personalAccessToken: process.env.X || '', ... } }
config(e) ==
    [personalAccessToken |-> OrElse(e.pat, ""),
     clientId            |-> OrElse(e.cid, ""),
     clientSecret        |-> OrElse(e.csec, "")]

ConfigErrorMessage ==
    <<"Either OURA_PERSONAL_ACCESS_TOKEN or both OURA_CLIENT_ID and OURA_CLIENT_SECRET must be provided">>

validateConfigTokenOnly(c) == ~Truthy(c.personalAccessToken)

\* validateConfig: TRUE when it throws.
validateConfig(c) ==
    ~Truthy(c.personalAccessToken) /\ (~Truthy(c.clientId) \/ ~Truthy(c.clientSecret))

\* new OuraAuth(personalAccessToken, clientId, clientSecret, redirectUri):
\* the credential variant selected at construction.
OuraAuthMode(c) ==
    IF Truthy(c.personalAccessToken) THEN "static"
    ELSE IF Truthy(c.clientId) /\ Truthy(c.clientSecret) THEN "oauth"
    ELSE "error"

(***************************************************************************)
(* The endpoint catalog (oura_provider.ts, initializeResources)            *)
(***************************************************************************)
endpoints ==
    << [name |-> "personal_info",            requiresDates |-> FALSE],
       [name |-> "daily_activity",           requiresDates |-> TRUE],
       [name |-> "daily_readiness",          requiresDates |-> TRUE],
       [name |-> "daily_sleep",              requiresDates |-> TRUE],
       [name |-> "sleep",                    requiresDates |-> TRUE],
       [name |-> "sleep_time",               requiresDates |-> TRUE],
       [name |-> "workout",                  requiresDates |-> TRUE],
       [name |-> "session",                  requiresDates |-> TRUE],
       [name |-> "daily_spo2",               requiresDates |-> TRUE],
       [name |-> "rest_mode_period",         requiresDates |-> TRUE],
       [name |-> "ring_configuration",       requiresDates |-> FALSE],
       [name |-> "daily_stress",             requiresDates |-> TRUE],
       [name |-> "daily_resilience",         requiresDates |-> TRUE],
       [name |-> "daily_cardiovascular_age", requiresDates |-> TRUE],
       [name |-> "vO2_max",                  requiresDates |-> TRUE],
       [name |-> "heartrate",                requiresDates |-> TRUE],
       [name |-> "enhanced_tag",             requiresDates |-> TRUE] >>

CatalogNames == { endpoints[k].name : k \in 1 .. Len(endpoints) }

RequiresDates(cat, name) ==
    \E k \in 1 .. Len(cat) : cat[k].name = name /\ cat[k].requiresDates

ResourceUri(name) == <<"oura://", name>>

ToolName(name) == <<"get_", name>>

\* endpoints.forEach(... this.server.resource(name, `oura://${name}`, handler))
RegisteredResources(cat) == { ResourceUri(cat[k].name) : k \in 1 .. Len(cat) }

RegisteredToolsUnfiltered(cat) == { ToolName(cat[k].name) : k \in 1 .. Len(cat) }

\* endpoints.filter(e => e.requiresDates).forEach(... this.server.tool(`get_${name}`, ...))
RegisteredTools(cat) ==
    { ToolName(cat[k].name) : k \in { j \in 1 .. Len(cat) : cat[j].requiresDates } }

NoProvider ==
    [constructed |-> FALSE, catalog |-> <<>>, resources |-> {}, tools |-> {},
     mode |-> "none", token |-> ""]

\* new OuraProvider(config): the credential provider, then initializeResources().
OuraProvider(c) ==
    [constructed |-> TRUE,
     catalog     |-> endpoints,
     resources   |-> RegisteredResources(endpoints),
     tools       |-> RegisteredTools(endpoints),
     mode        |-> OuraAuthMode(c),
     token       |-> c.personalAccessToken]

(***************************************************************************)
(* Dates (Date.prototype.toISOString, in UTC)                              *)
(***************************************************************************)
Pad2(n) == IF n < 10 THEN "0" \o ToString(n) ELSE ToString(n)

\* The proleptic Gregorian date of a day number (days since 1970-01-01).
CivilFromDays(z0) ==
    LET z   == z0 + 719468
        era == z \div 146097
        doe == z - era * 146097
        yoe == (doe - doe \div 1460 + doe \div 36524 - doe \div 146096) \div 365
        doy == doe - (365 * yoe + yoe \div 4 - yoe \div 100)
        mp  == (5 * doy + 2) \div 153
        d   == doy - (153 * mp + 2) \div 5 + 1
        m   == IF mp < 10 THEN mp + 3 ELSE mp - 9
        y   == yoe + era * 400 + (IF m <= 2 THEN 1 ELSE 0)
    IN  [y |-> y, m |-> m, d |-> d]

\* new Date(t).toISOString().split('T')[0]
ISODate(t) ==
    LET c == CivilFromDays(t.day)
    IN  ToString(c.y) \o "-" \o Pad2(c.m) \o "-" \o Pad2(c.d)

\* t + delta milliseconds, delta of either sign.
PlusMs(t, delta) ==
    LET total == t.ms + delta
    IN  [day |-> t.day + (total \div MsPerDay), ms |-> total % MsPerDay]

\* The trailing window of a date-based resource read: t1 is what `new Date()`
\* read, t2 what the later `Date.now()` read.
ResourceParams(t1, t2) ==
    [has        |-> TRUE,
     start_date |-> ISODate(PlusMs(t2, 0 - 7 * 24 * 60 * 60 * 1000)),
     end_date   |-> ISODate(t1)]

NoParams == [has |-> FALSE, start_date |-> "", end_date |-> ""]

(***************************************************************************)
(* Tool arguments                                                          *)
(***************************************************************************)
NonObjectArgs ==
    { [tag |-> "undefined", truthy |-> FALSE, startDate |-> UNDEF, endDate |-> UNDEF],
      [tag |-> "null",      truthy |-> FALSE, startDate |-> UNDEF, endDate |-> UNDEF],
      [tag |-> "string",    truthy |-> TRUE,  startDate |-> UNDEF, endDate |-> UNDEF],
      [tag |-> "number",    truthy |-> TRUE,  startDate |-> UNDEF, endDate |-> UNDEF],
      [tag |-> "array",     truthy |-> TRUE,  startDate |-> UNDEF, endDate |-> UNDEF] }

ObjectArgs ==
    [tag : {"object"}, truthy : {TRUE},
     startDate : {UNDEF, "", "2024-05-01"}, endDate : {UNDEF, "", "2024-05-07"}]

ToolArgs == NonObjectArgs \cup ObjectArgs

NoArgs == [tag |-> "undefined", truthy |-> FALSE, startDate |-> UNDEF, endDate |-> UNDEF]

\* JavaScript's typeof.
TypeOf(a) ==
    CASE a.tag = "undefined" -> "undefined"
      [] a.tag = "string"    -> "string"
      [] a.tag = "number"    -> "number"
      [] OTHER               -> "object"    \* null, arrays and plain objects

toolValidationEitherDate(name, a) ==
    IF ~a.truthy \/ TypeOf(a) # "object"
    THEN <<"Invalid arguments for ", name, ": expected object with startDate and endDate">>
    ELSE IF ~Truthy(a.startDate) /\ ~Truthy(a.endDate)
    THEN <<"Missing required parameters for ", name, ": startDate and endDate are required">>
    ELSE <<>>

\* The tool handler's checks: the message of the Error it throws, <<>> when it
\* throws none.
toolValidation(name, a) ==
    IF ~a.truthy \/ TypeOf(a) # "object"
    THEN <<"Invalid arguments for ", name, ": expected object with startDate and endDate">>
    ELSE IF ~Truthy(a.startDate) \/ ~Truthy(a.endDate)
    THEN <<"Missing required parameters for ", name, ": startDate and endDate are required">>
    ELSE <<>>

ToolParamsSwapped(a) ==
    [has |-> TRUE, start_date |-> a.endDate, end_date |-> a.startDate]

\* { start_date: startDate, end_date: endDate }
ToolParams(a) ==
    [has |-> TRUE, start_date |-> a.startDate, end_date |-> a.endDate]

(***************************************************************************)
(* Upstream responses and errors                                           *)
(***************************************************************************)
NoBody == [text |-> "", valid |-> FALSE, canon |-> "", parseError |-> <<>>]

BodyScore ==
    [text |-> "{\"data\":[{\"score\":82}]}", valid |-> TRUE,
     canon |-> "{\"data\":[{\"score\":82}]}", parseError |-> <<>>]

BodySpaced ==
    [text |-> "{ \"data\" : [ ] }", valid |-> TRUE,
     canon |-> "{\"data\":[]}", parseError |-> <<>>]

BodyHtml ==
    [text |-> "<html>502 Bad Gateway ... (large) ...</html>", valid |-> FALSE,
     canon |-> "", parseError |-> <<"Unexpected token < in JSON at position 0">>]

Responses ==
    { [status |-> 200, statusText |-> "OK",                    body |-> BodyScore],
      [status |-> 200, statusText |-> "OK",                    body |-> BodySpaced],
      [status |-> 200, statusText |-> "OK",                    body |-> BodyHtml],
      [status |-> 299, statusText |-> "Custom",                body |-> BodyScore],
      [status |-> 199, statusText |-> "Early",                 body |-> BodyScore],
      [status |-> 300, statusText |-> "Multiple Choices",      body |-> BodyScore],
      [status |-> 404, statusText |-> "Not Found",             body |-> BodyHtml],
      [status |-> 500, statusText |-> "Internal Server Error", body |-> BodyHtml] }

NoResp == [status |-> 0, statusText |-> "", body |-> NoBody]

\* response.ok
ResponseOk(r) == r.status >= 200 /\ r.status <= 299

\* Values a promise can reject with: an Error with a message, or anything else.
NoError == [isError |-> FALSE, message |-> <<>>]

NetErrors ==
    { [isError |-> TRUE,  message |-> <<"fetch failed">>],
      [isError |-> FALSE, message |-> <<"ECONNRESET">>] }

FatalErrors ==
    { [isError |-> TRUE,  message |-> <<"boom">>],
      [isError |-> FALSE, message |-> <<"rejected with a string">>] }

\* throw new Error(`Failed to fetch ${endpoint}: ${response.status} ${response.statusText}`)
StatusErrorWithBody(endpoint, r) ==
    [isError |-> TRUE,
     message |-> <<"Failed to fetch ", endpoint, ": ", ToString(r.status), " ",
                   r.statusText, " ", r.body.text>>]

StatusError(endpoint, r) ==
    [isError |-> TRUE,
     message |-> <<"Failed to fetch ", endpoint, ": ", ToString(r.status), " ",
                   r.statusText>>]

\* fetchOuraData's catch block: the message of the Error it throws for `error`.
Sanitize(endpoint, error) ==
    IF error.isError
    THEN <<"Failed to fetch ", endpoint, ": ">> \o error.message
    ELSE <<"Failed to fetch ", endpoint, ": ", "Unknown error">>

\* JSON.stringify(await response.json())
StringifyParsed(body) == body.canon

BaseUrl == "https://api.ouraring.com/v2"

\* new URL(`${baseUrl}/usercollection/${endpoint}`) with the params appended.
RequestUrl(endpoint, params) ==
    <<BaseUrl, "/usercollection/", endpoint>> \o
    (IF params.has
     THEN <<"?start_date=", params.start_date, "&end_date=", params.end_date>>
     ELSE <<>>)

(***************************************************************************)
(* The credential provider's OAuth state (OuraAuth)                        *)
(***************************************************************************)
NoAuth == [accessToken |-> 0, expired |-> FALSE, inflight |-> {}, exchanges |-> 0]

OAuthToken(x) == "oauth-" \o ToString(x)

\* The cached token is present and its expiry has not passed.
TokenUsable == auth.accessToken # 0 /\ ~auth.expired

getHeadersUnserialized ==
    IF provider.mode = "static"
    THEN [hdr |-> "ready", xid |-> 0, token |-> provider.token, start |-> FALSE]
    ELSE IF TokenUsable
    THEN [hdr |-> "ready", xid |-> auth.accessToken,
          token |-> OAuthToken(auth.accessToken), start |-> FALSE]
    ELSE [hdr |-> "wait", xid |-> auth.exchanges + 1, token |-> "", start |-> TRUE]

\* auth.getHeaders(), up to its first suspension: the headers when they are at
\* hand, else the exchange the caller awaits (start: it begins that exchange).
getHeaders ==
    IF provider.mode = "static"
    THEN [hdr |-> "ready", xid |-> 0, token |-> provider.token, start |-> FALSE]
    ELSE IF TokenUsable
    THEN [hdr |-> "ready", xid |-> auth.accessToken,
          token |-> OAuthToken(auth.accessToken), start |-> FALSE]
    ELSE IF auth.inflight # {}
    THEN [hdr |-> "wait", xid |-> CHOOSE x \in auth.inflight : TRUE,
          token |-> "", start |-> FALSE]
    ELSE [hdr |-> "wait", xid |-> auth.exchanges + 1, token |-> "", start |-> TRUE]

AuthErrorMessage == <<"Token exchange failed">>

(***************************************************************************)
(* State                                                                   *)
(***************************************************************************)
NoTime == [day |-> 0, ms |-> 0]

NoInv ==
    [st |-> "idle", kind |-> "none", name |-> "", args |-> NoArgs, now |-> NoTime,
     params |-> NoParams, hdr |-> "none", xid |-> 0, token |-> "",
     hdrReqs |-> 0, fetches |-> 0, url |-> <<>>, resp |-> NoResp,
     neterr |-> NoError, bodyRead |-> FALSE, msg |-> <<>>, result |-> ""]

NoFatal == [kind |-> "none", err |-> NoError]

\* The clock values the runs start from: 2024-06-10 at noon and at the last
\* millisecond of the day, 2024-03-01 (a leap February behind it) and
\* 2024-01-03 (a year's end behind it).
Times ==
    { [day |-> 19884, ms |-> 43200000],
      [day |-> 19884, ms |-> MsPerDay - 1],
      [day |-> 19783, ms |-> 0],
      [day |-> 19725, ms |-> 1000] }

Running == exitCode = -1

InitWith(envs, times) ==
    /\ env \in envs
    /\ clock \in times
    /\ phase = "loaded"
    /\ exitCode = -1
    /\ stdout = <<>>
    /\ stderr = <<>>
    /\ attempts = <<>>
    /\ provider = NoProvider
    /\ connectCalled = FALSE
    /\ inv = [i \in Slots |-> NoInv]
    /\ auth = NoAuth
    /\ fatal = NoFatal

(***************************************************************************)
(* Startup and the fatal handlers (index.ts)                               *)
(***************************************************************************)
\* error instanceof Error ? error.message : 'Unknown error'
ShortMessage(e) == IF e.isError THEN e.message ELSE <<"Unknown error">>

\* process.stderr.write(`${prefix}${errorMessage}\n`); process.exit(1)
Die(kind, prefix, e) ==
    /\ stderr' = Append(stderr, <<prefix>> \o ShortMessage(e) \o <<"\n">>)
    /\ exitCode' = 1
    /\ phase' = "exited"
    /\ fatal' = [kind |-> kind, err |-> e]

\* main() with its .catch: validateConfig, new OuraProvider, connect(transport).
main ==
    /\ Running /\ phase = "loaded"
    /\ LET c == config(env) IN
       IF validateConfig(c)
       THEN /\ Die("main", "Server error: ", [isError |-> TRUE, message |-> ConfigErrorMessage])
            /\ UNCHANGED <<provider, connectCalled>>
       ELSE IF OuraAuthMode(c) = "error"
       THEN /\ Die("main", "Server error: ", [isError |-> TRUE, message |-> ConfigErrorMessage])
            /\ UNCHANGED <<provider, connectCalled>>
       ELSE /\ provider' = OuraProvider(c)
            /\ connectCalled' = TRUE
            /\ phase' = "connecting"
            /\ UNCHANGED <<stderr, exitCode, fatal>>
    /\ UNCHANGED <<env, stdout, attempts, inv, auth, clock>>

\* await provider.getServer().connect(transport) resolves.
ConnectResolve ==
    /\ Running /\ phase = "connecting"
    /\ phase' = "connected"
    /\ UNCHANGED <<env, exitCode, stdout, stderr, attempts, provider, connectCalled,
                   inv, auth, clock, fatal>>

UncaughtExceptionLogOnly(e) ==
    /\ Running
    /\ stderr' = Append(stderr, <<"Uncaught exception: ">> \o ShortMessage(e) \o <<"\n">>)
    /\ fatal' = [kind |-> "uncaughtException", err |-> e]
    /\ UNCHANGED <<env, phase, exitCode, stdout, attempts, provider, connectCalled,
                   inv, auth, clock>>

\* process.on('uncaughtException', ...)
UncaughtException(e) ==
    /\ Running
    /\ Die("uncaughtException", "Uncaught exception: ", e)
    /\ UNCHANGED <<env, stdout, attempts, provider, connectCalled, inv, auth, clock>>

\* process.on('unhandledRejection', ...)
UnhandledRejection(e) ==
    /\ Running
    /\ Die("unhandledRejection", "Unhandled promise rejection: ", e)
    /\ UNCHANGED <<env, stdout, attempts, provider, connectCalled, inv, auth, clock>>

(***************************************************************************)
(* Handlers (oura_provider.ts)                                             *)
(***************************************************************************)
Serving == Running /\ phase = "connected"

\* The parameters of an earlier invocation of the same category, when there is one.
Remembered(name, params) ==
    IF \E j \in Slots : inv[j].name = name /\ inv[j].params.has
    THEN (LET j == CHOOSE k \in Slots : inv[k].name = name /\ inv[k].params.has
          IN  inv[j].params)
    ELSE params

StartFetchCached(i, kind, name, args, now, params) ==
    LET h == getHeaders IN
    /\ h.start => auth.exchanges < MaxExchanges
    /\ inv' = [inv EXCEPT ![i] =
                  [NoInv EXCEPT !.st = "auth", !.kind = kind, !.name = name,
                                !.args = args, !.now = now,
                                !.params = Remembered(name, params),
                                !.hdr = h.hdr, !.xid = h.xid, !.token = h.token,
                                !.hdrReqs = 1]]
    /\ auth' = IF h.start
               THEN [auth EXCEPT !.exchanges = @ + 1, !.inflight = @ \cup {h.xid}]
               ELSE auth

\* fetchOuraData up to its first await: it asks the credential provider for
\* the headers.
StartFetch(i, kind, name, args, now, params) ==
    LET h == getHeaders IN
    /\ h.start => auth.exchanges < MaxExchanges
    /\ inv' = [inv EXCEPT ![i] =
                  [NoInv EXCEPT !.st = "auth", !.kind = kind, !.name = name,
                                !.args = args, !.now = now, !.params = params,
                                !.hdr = h.hdr, !.xid = h.xid, !.token = h.token,
                                !.hdrReqs = 1]]
    /\ auth' = IF h.start
               THEN [auth EXCEPT !.exchanges = @ + 1, !.inflight = @ \cup {h.xid}]
               ELSE auth

\* The resource handler of `name` runs: lag is how far the clock moves between
\* its two reads.
ResourceRead(i, name, lag) ==
    /\ Serving /\ inv[i].st = "idle"
    /\ ResourceUri(name) \in provider.resources
    /\ LET t1 == clock
           t2 == PlusMs(clock, lag)
       IN  /\ clock' = (IF RequiresDates(provider.catalog, name) THEN t2 ELSE clock)
           /\ StartFetch(i, "resource", name, NoArgs, t1,
                         IF RequiresDates(provider.catalog, name)
                         THEN ResourceParams(t1, t2) ELSE NoParams)
    /\ UNCHANGED <<env, phase, exitCode, stdout, stderr, attempts, provider,
                   connectCalled, fatal>>

\* The tool handler get_<name> runs on args.
ToolCall(i, name, args) ==
    /\ Serving /\ inv[i].st = "idle"
    /\ ToolName(name) \in provider.tools
    /\ IF toolValidation(name, args) # <<>>
       THEN /\ inv' = [inv EXCEPT ![i] =
                          [NoInv EXCEPT !.st = "err", !.kind = "tool", !.name = name,
                                        !.args = args, !.now = clock,
                                        !.msg = toolValidation(name, args)]]
            /\ auth' = auth
       ELSE StartFetch(i, "tool", name, args, clock, ToolParams(args))
    /\ UNCHANGED <<env, phase, exitCode, stdout, stderr, attempts, provider,
                   connectCalled, clock, fatal>>

Frame == UNCHANGED <<env, phase, exitCode, stdout, stderr, attempts, provider,
                     connectCalled, auth, clock, fatal>>

\* The headers arrive: fetchOuraData builds the URL and calls fetch.
HeadersResolve(i) ==
    /\ Running /\ inv[i].st = "auth" /\ inv[i].hdr = "ready"
    /\ inv' = [inv EXCEPT ![i].st = "fetch",
                          ![i].url = RequestUrl(inv[i].name, inv[i].params),
                          ![i].fetches = @ + 1]
    /\ Frame

\* getHeaders rejects: the await lies outside fetchOuraData's try block, so the
\* handler rejects with that error as it is.
HeadersReject(i) ==
    /\ Running /\ inv[i].st = "auth" /\ inv[i].hdr = "failed"
    /\ inv' = [inv EXCEPT ![i].st = "err", ![i].msg = AuthErrorMessage]
    /\ Frame

FetchRespondLeaky(i, r) ==
    /\ Running /\ inv[i].st = "fetch"
    /\ IF ~ResponseOk(r)
       THEN inv' = [inv EXCEPT ![i].st = "err", ![i].resp = r, ![i].bodyRead = TRUE,
                       ![i].msg = Sanitize(inv[i].name, StatusErrorWithBody(inv[i].name, r))]
       ELSE inv' = [inv EXCEPT ![i].st = "json", ![i].resp = r, ![i].bodyRead = TRUE]
    /\ Frame

FetchRespondFatal(i, r) ==
    /\ Running /\ inv[i].st = "fetch"
    /\ inv' = [inv EXCEPT ![i].st = "err", ![i].resp = r,
                          ![i].msg = Sanitize(inv[i].name, StatusError(inv[i].name, r))]
    /\ Die("handler", "Server error: ", StatusError(inv[i].name, r))
    /\ UNCHANGED <<env, stdout, attempts, provider, connectCalled, auth, clock>>

\* fetch resolves with response r: a non-ok status throws inside the try block
\* and the catch block rethrows it sanitized; else response.json() is awaited.
FetchRespond(i, r) ==
    /\ Running /\ inv[i].st = "fetch"
    /\ IF ~ResponseOk(r)
       THEN inv' = [inv EXCEPT ![i].st = "err", ![i].resp = r,
                       ![i].msg = Sanitize(inv[i].name, StatusError(inv[i].name, r))]
       ELSE inv' = [inv EXCEPT ![i].st = "json", ![i].resp = r, ![i].bodyRead = TRUE]
    /\ Frame

\* fetch rejects (a network failure) with e.
FetchReject(i, e) ==
    /\ Running /\ inv[i].st = "fetch"
    /\ inv' = [inv EXCEPT ![i].st = "err", ![i].neterr = e,
                          ![i].msg = Sanitize(inv[i].name, e)]
    /\ Frame

\* response.json() resolves and the handler returns the payload as text.
JsonResolve(i) ==
    /\ Running /\ inv[i].st = "json" /\ inv[i].resp.body.valid
    /\ inv' = [inv EXCEPT ![i].st = "ok", ![i].result = StringifyParsed(inv[i].resp.body)]
    /\ Frame

\* response.json() rejects with a SyntaxError.
JsonReject(i) ==
    /\ Running /\ inv[i].st = "json" /\ ~inv[i].resp.body.valid
    /\ LET e == [isError |-> TRUE, message |-> inv[i].resp.body.parseError] IN
       inv' = [inv EXCEPT ![i].st = "err", ![i].neterr = e,
                          ![i].msg = Sanitize(inv[i].name, e)]
    /\ Frame

(***************************************************************************)
(* The token exchange (OuraAuth)                                           *)
(***************************************************************************)
Settle(x, hdr, token) ==
    [i \in Slots |->
        IF inv[i].st = "auth" /\ inv[i].hdr = "wait" /\ inv[i].xid = x
        THEN [inv[i] EXCEPT !.hdr = hdr, !.token = token]
        ELSE inv[i]]

\* Exchange x succeeds: the token is cached and every awaiting caller gets it.
ExchangeSucceed(x) ==
    /\ Running /\ x \in auth.inflight
    /\ auth' = [auth EXCEPT !.accessToken = x, !.expired = FALSE, !.inflight = @ \ {x}]
    /\ inv' = Settle(x, "ready", OAuthToken(x))
    /\ UNCHANGED <<env, phase, exitCode, stdout, stderr, attempts, provider,
                   connectCalled, clock, fatal>>

\* Exchange x fails: every awaiting caller gets the authentication error.
ExchangeFail(x) ==
    /\ Running /\ x \in auth.inflight
    /\ auth' = [auth EXCEPT !.inflight = @ \ {x}]
    /\ inv' = Settle(x, "failed", "")
    /\ UNCHANGED <<env, phase, exitCode, stdout, stderr, attempts, provider,
                   connectCalled, clock, fatal>>

\* The cached token's expiry passes.
TokenExpire ==
    /\ Running /\ TokenUsable
    /\ auth' = [auth EXCEPT !.expired = TRUE]
    /\ UNCHANGED <<env, phase, exitCode, stdout, stderr, attempts, provider,
                   connectCalled, inv, clock, fatal>>

(***************************************************************************)
(* Specifications                                                          *)
(***************************************************************************)
Exchanges == 1 .. MaxExchanges + 1

\* One client request at a time, over the whole catalog and every input.
Init == InitWith(Envs, Times)

Next ==
    \/ main
    \/ ConnectResolve
    \/ \E e \in FatalErrors : UncaughtException(e)
    \/ \E e \in FatalErrors : UnhandledRejection(e)
    \/ \E name \in CatalogNames, lag \in 0 .. MaxClockLag : ResourceRead(1, name, lag)
    \/ \E name \in CatalogNames, args \in ToolArgs : ToolCall(1, name, args)
    \/ HeadersResolve(1)
    \/ HeadersReject(1)
    \/ \E r \in Responses : FetchRespond(1, r)
    \/ \E e \in NetErrors : FetchReject(1, e)
    \/ JsonResolve(1)
    \/ JsonReject(1)
    \/ \E x \in Exchanges : ExchangeSucceed(x)
    \/ \E x \in Exchanges : ExchangeFail(x)
    \/ TokenExpire

Spec == Init /\ [][Next]_vars

\* Concurrent client requests, over a non-date and a date-ranged category
\* and one input of each kind, under a static token and under OAuth.
StaticEnv == [pat |-> "secret", cid |-> UNDEF, csec |-> UNDEF]

OAuthEnv == [pat |-> UNDEF, cid |-> "secret", csec |-> "secret"]

ConcNames == {"personal_info", "daily_sleep"}

ConcArgs ==
    { NoArgs,
      [tag |-> "object", truthy |-> TRUE, startDate |-> "2024-05-01", endDate |-> UNDEF],
      [tag |-> "object", truthy |-> TRUE, startDate |-> "2024-05-01", endDate |-> "2024-05-07"] }

ConcResponses ==
    { [status |-> 200, statusText |-> "OK",                    body |-> BodyScore],
      [status |-> 500, statusText |-> "Internal Server Error", body |-> BodyHtml] }

ConcError == [isError |-> TRUE, message |-> <<"fetch failed">>]

ConcTimes == { [day |-> 19884, ms |-> 43200000] }

InitConc == InitWith({StaticEnv, OAuthEnv}, ConcTimes)

NextConc ==
    \/ main
    \/ ConnectResolve
    \/ UncaughtException(ConcError)
    \/ \E i \in 1 .. MaxInv, name \in ConcNames : ResourceRead(i, name, 0)
    \/ \E i \in 1 .. MaxInv, name \in ConcNames, args \in ConcArgs : ToolCall(i, name, args)
    \/ \E i \in 1 .. MaxInv : HeadersResolve(i)
    \/ \E i \in 1 .. MaxInv : HeadersReject(i)
    \/ \E i \in 1 .. MaxInv, r \in ConcResponses : FetchRespond(i, r)
    \/ \E i \in 1 .. MaxInv : FetchReject(i, ConcError)
    \/ \E i \in 1 .. MaxInv : JsonResolve(i)
    \/ \E x \in Exchanges : ExchangeSucceed(x)
    \/ \E x \in Exchanges : ExchangeFail(x)
    \/ TokenExpire

SpecConc == InitConc /\ [][NextConc]_vars

\* Concurrent header requests under OAuth: every request reads one resource
\* and the upstream always answers 200.
InitAuth == InitWith({OAuthEnv}, ConcTimes)

NextAuth ==
    \/ main
    \/ ConnectResolve
    \/ \E i \in 1 .. MaxReq : ResourceRead(i, "personal_info", 0)
    \/ \E i \in 1 .. MaxReq : HeadersResolve(i)
    \/ \E i \in 1 .. MaxReq : HeadersReject(i)
    \/ \E i \in 1 .. MaxReq :
          FetchRespond(i, [status |-> 200, statusText |-> "OK", body |-> BodyScore])
    \/ \E i \in 1 .. MaxReq : JsonResolve(i)
    \/ \E x \in Exchanges : ExchangeSucceed(x)
    \/ \E x \in Exchanges : ExchangeFail(x)
    \/ TokenExpire

SpecAuth == InitAuth /\ [][NextAuth]_vars

(***************************************************************************)
(* Output (index.ts): the console rebinding and the two process streams    *)
(***************************************************************************)
ConsoleMethods == {"log", "info", "warn", "debug", "error"}

Texts ==
    { "Fetching workout data 2024-05-01...",
      "{\"jsonrpc\":\"2.0\",\"id\":1,\"result\":{}}",
      "{\"data\":[]}" }

consoleBindingNative(method) == method

\* console.log = console.error; console.info = console.error;
\* console.warn = console.error; console.debug = console.error:
\* the console function a call of console.<method> runs.
consoleBinding(method) == "error"

\* The stream Node's own console function writes: error and warn write
\* stderr, the others stdout.
NativeStream(fn) == IF fn \in {"error", "warn"} THEN "stderr" ELSE "stdout"

\* console.<method>(text)
ConsoleCall(method, text) ==
    /\ Running /\ Len(attempts) < MaxWrites
    /\ attempts' = Append(attempts, [via |-> "console." \o method, text |-> text])
    /\ IF NativeStream(consoleBinding(method)) = "stderr"
       THEN stderr' = Append(stderr, <<text, "\n">>) /\ stdout' = stdout
       ELSE stdout' = Append(stdout, <<text, "\n">>) /\ stderr' = stderr
    /\ UNCHANGED <<env, phase, exitCode, provider, connectCalled, inv, auth, clock, fatal>>

\* process.stdout.write(text): nothing stands between the caller and the stream.
StdoutWrite(text) ==
    /\ Running /\ Len(attempts) < MaxWrites
    /\ attempts' = Append(attempts, [via |-> "stdout", text |-> text])
    /\ stdout' = Append(stdout, <<text>>)
    /\ UNCHANGED <<env, phase, exitCode, stderr, provider, connectCalled, inv, auth,
                   clock, fatal>>

\* process.stderr.write(text)
StderrWrite(text) ==
    /\ Running /\ Len(attempts) < MaxWrites
    /\ attempts' = Append(attempts, [via |-> "stderr", text |-> text])
    /\ stderr' = Append(stderr, <<text>>)
    /\ UNCHANGED <<env, phase, exitCode, stdout, provider, connectCalled, inv, auth,
                   clock, fatal>>

InitOut == InitWith({StaticEnv}, ConcTimes)

NextOut ==
    \/ \E m \in ConsoleMethods, t \in Texts : ConsoleCall(m, t)
    \/ \E t \in Texts : StdoutWrite(t)
    \/ \E t \in Texts : StderrWrite(t)

SpecOut == InitOut /\ [][NextOut]_vars

(***************************************************************************)
(* Properties                                                              *)
(***************************************************************************)
Used == { i \in Slots : inv[i].st # "idle" }

\* The arguments are missing, not an object, or lack a non-empty date.
ArgsIncomplete(a) ==
    \/ a.tag # "object"
    \/ a.startDate \in {UNDEF, ""}
    \/ a.endDate \in {UNDEF, ""}

ValidationMessages(name) ==
    { <<"Invalid arguments for ", name, ": expected object with startDate and endDate">>,
      <<"Missing required parameters for ", name, ": startDate and endDate are required">> }

\* C1: a tool invocation whose arguments are missing, not an object, or lack a
\* non-empty startDate or endDate has failed with a validation error, and has
\* requested no credentials and issued no upstream request.
C1_ValidationBeforeNetwork ==
    \A i \in Used :
        (inv[i].kind = "tool" /\ ArgsIncomplete(inv[i].args)) =>
            /\ inv[i].st = "err"
            /\ inv[i].msg \in ValidationMessages(inv[i].name)
            /\ inv[i].hdrReqs = 0
            /\ inv[i].fetches = 0
            /\ inv[i].url = <<>>

C1_Witness ==
    \E i \in Used :
        /\ inv[i].kind = "tool" /\ inv[i].st = "err"
        /\ inv[i].args.tag = "object"
        /\ inv[i].args.startDate = "2024-05-01"
        /\ inv[i].args.endDate = ""
        /\ inv[i].name = "enhanced_tag"

DayOnly(t, back) == [day |-> t.day - back, ms |-> 0]

\* C2: a date-ranged resource read sends end_date = the current date and
\* start_date = the date 6 days before it (7 calendar days inclusive).
C2_SevenDayWindow ==
    \A i \in Used :
        (inv[i].kind = "resource" /\ inv[i].params.has) =>
            /\ inv[i].params.end_date = ISODate(inv[i].now)
            /\ inv[i].params.start_date = ISODate(DayOnly(inv[i].now, 6))

NonDateNames(cat) == { cat[k].name : k \in { j \in 1 .. Len(cat) : ~cat[j].requiresDates } }

RegistrationShape(p, nEntries, nTools) ==
    /\ Len(p.catalog) = nEntries
    /\ Cardinality(p.resources) = nEntries
    /\ Cardinality(p.tools) = nTools
    /\ \A k \in 1 .. Len(p.catalog) :
          /\ ResourceUri(p.catalog[k].name) \in p.resources
          /\ ToolName(p.catalog[k].name) \in p.tools <=> p.catalog[k].requiresDates
    /\ NonDateNames(p.catalog) = {"personal_info", "ring_configuration"}

\* C3 (as amended): after registration the catalog has exactly 17 entries, a
\* resource oura://<name> is registered for every entry, and a tool get_<name>
\* for an entry if and only if it is date-ranged, the others being exactly
\* personal_info and ring_configuration: 17 resources and 15 tools.
C3_Registration == provider.constructed => RegistrationShape(provider, 17, 15)

\* C3 (as stated): the same with 16 entries, 16 resources and 14 tools.
C3_SixteenEntries == provider.constructed => RegistrationShape(provider, 16, 14)

C3_Witness == provider.constructed /\ phase = "connected"

Present(v) == v # UNDEF /\ v # ""

CredentialsGiven == Present(env.pat) \/ (Present(env.cid) /\ Present(env.csec))

\* C5: the provider is constructed and the transport connection begun only
\* when the static token is non-empty or both client id and secret are; main
\* fails only in the other configurations, and then the provider is not
\* constructed, connect is not called and the exit status is non-zero.
C5_Startup ==
    /\ (provider.constructed \/ connectCalled \/ phase \in {"connecting", "connected"})
          => CredentialsGiven
    /\ provider.constructed <=> connectCalled
    /\ fatal.kind = "main" =>
          /\ ~CredentialsGiven
          /\ ~provider.constructed /\ ~connectCalled
          /\ exitCode # -1 /\ exitCode # 0
          /\ stderr = << <<"Server error: ">> \o ConfigErrorMessage \o <<"\n">> >>

C5_Witness ==
    /\ fatal.kind = "main"
    /\ env.cid = "secret" /\ env.csec = "" /\ env.pat = UNDEF

\* C6: after a non-2xx response the invocation has failed with a message that
\* contains the category, the status code and the status text and is made of
\* nothing else, the body was never read and is not in the message; after a
\* network or parse failure the message is the category and the underlying
\* error's short message.
C6_SanitizedErrors ==
    \A i \in Used :
        /\ (inv[i].resp # NoResp /\ ~(inv[i].resp.status \in 200 .. 299)) =>
              /\ inv[i].st = "err"
              /\ {inv[i].name, ToString(inv[i].resp.status), inv[i].resp.statusText}
                    \subseteq Range(inv[i].msg)
              /\ Range(inv[i].msg) \subseteq
                    {"Failed to fetch ", ": ", " ", inv[i].name,
                     ToString(inv[i].resp.status), inv[i].resp.statusText}
              /\ ~inv[i].bodyRead
              /\ inv[i].resp.body.text \notin Range(inv[i].msg)
        /\ inv[i].neterr # NoError =>
              /\ inv[i].st = "err"
              /\ inv[i].msg = <<"Failed to fetch ", inv[i].name, ": ">> \o
                                 (IF inv[i].neterr.isError THEN inv[i].neterr.message
                                  ELSE <<"Unknown error">>)

C6_Witness ==
    \E i \in Used :
        inv[i].st = "err" /\ inv[i].resp.status = 404 /\ inv[i].resp.body = BodyHtml

\* The text parses as a JSON object that has a jsonrpc field.
IsProtocolFrame(text) == text = "{\"jsonrpc\":\"2.0\",\"id\":1,\"result\":{}}"

OnStream(stream, text) == \E k \in 1 .. Len(stream) : stream[k][1] = text

ConsoleVias == {"console.log", "console.info", "console.warn", "console.debug",
                "console.error"}

\* C4 (as stated): a generic log call never appears on the transport stream
\* and does appear on the diagnostic channel; a direct write to the primary
\* output reaches the transport stream if and only if it is a JSON-RPC frame,
\* and any other is on the diagnostic channel instead.
C4_OnlyFramesOnTransport ==
    \A k \in 1 .. Len(attempts) :
        /\ (\A l \in 1 .. Len(attempts) : attempts[l].via \in ConsoleVias) =>
              /\ ~OnStream(stdout, attempts[k].text)
              /\ OnStream(stderr, attempts[k].text)
        /\ attempts[k].via = "stdout" =>
              /\ OnStream(stdout, attempts[k].text) <=> IsProtocolFrame(attempts[k].text)
              /\ ~IsProtocolFrame(attempts[k].text) => OnStream(stderr, attempts[k].text)

RECURSIVE Routed(_, _)
\* What the attempts a[1..] put on the stream `to`, in order, when console
\* calls go to the diagnostic channel with a newline and direct writes go
\* where they were addressed, as they are.
Routed(a, to) ==
    IF a = <<>> THEN <<>>
    ELSE LET h == Head(a)
             dest == IF h.via = "stdout" THEN "stdout" ELSE "stderr"
             line == IF h.via \in ConsoleVias THEN <<h.text, "\n">> ELSE <<h.text>>
         IN  (IF dest = to THEN <<line>> ELSE <<>>) \o Routed(Tail(a), to)

\* C4 (as amended): every console call (log, info, warn, debug, error) is
\* written to the diagnostic channel and never to the transport stream,
\* whatever its text; a direct write to the primary output reaches the
\* transport stream unfiltered, JSON-RPC frame or not; nothing is dropped.
C4_ConsoleRedirected ==
    /\ stdout = Routed(attempts, "stdout")
    /\ stderr = Routed(attempts, "stderr")

C4_Witness ==
    \E k, l \in 1 .. Len(attempts) :
        /\ attempts[k].via = "console.log" /\ IsProtocolFrame(attempts[k].text)
        /\ attempts[l].via = "stdout" /\ ~IsProtocolFrame(attempts[l].text)
        /\ OnStream(stdout, attempts[l].text)
        /\ OnStream(stderr, attempts[k].text)

Awaiting == { i \in Slots : inv[i].st = "auth" /\ inv[i].hdr = "wait" }

C7_State ==
    /\ Cardinality(auth.inflight) <= 1
    /\ \A i \in Awaiting : inv[i].xid \in auth.inflight
    /\ \A i, j \in Slots :
          (inv[i].xid = inv[j].xid /\ inv[i].xid # 0 /\ inv[i].token # "" /\ inv[j].token # "")
              => inv[i].token = inv[j].token

\* A header request made while an exchange is in flight and no usable token
\* is cached starts no exchange and awaits the one in flight.
C7_Step ==
    \A i \in Slots :
        (inv[i].st = "idle" /\ inv'[i].st = "auth" /\ ~TokenUsable /\ auth.inflight # {}) =>
            /\ auth'.exchanges = auth.exchanges
            /\ auth'.inflight = auth.inflight
            /\ inv'[i].hdr = "wait" /\ inv'[i].xid \in auth.inflight

\* C7: in OAuth mode at most one token exchange is in flight at a time; header
\* requests made while one is in flight start no second one, attach to it, and
\* all receive headers built from the token it returns.
C7_SingleFlight == []C7_State /\ [][C7_Step]_vars

\* Token 1 was cached and expired; two requests then overlapped, one exchange
\* (the second of the run) served both.
C7_Witness ==
    /\ auth.accessToken = 2 /\ auth.exchanges = 2 /\ auth.inflight = {}
    /\ \E k \in Slots : inv[k].token = OAuthToken(1)
    /\ \E i, j \in Slots :
          /\ i # j
          /\ inv[i].xid = 2 /\ inv[j].xid = 2
          /\ inv[i].st = "fetch" /\ inv[j].st = "fetch"
          /\ inv[i].token = OAuthToken(2) /\ inv[j].token = OAuthToken(2)

\* One step, as C8 constrains it.
C8_Step ==
    /\ \A i \in Slots :
          (inv[i].st # "err" /\ inv'[i].st = "err") =>
              /\ exitCode' = -1 /\ exitCode = -1
              /\ phase' = phase
              /\ \A j \in Slots \ {i} : inv'[j] = inv[j]
    /\ (exitCode = -1 /\ exitCode' # -1) =>
          /\ fatal'.kind \in {"main", "uncaughtException", "unhandledRejection"}
          /\ inv' = inv

\* C8: a step in which an invocation fails leaves the process running and
\* every other invocation as it was; the process exits only through main's
\* catch or the two fatal handlers, never through a handler's failure.
C8_FailureIsLocal == [][C8_Step]_vars

C8_Witness ==
    /\ Running
    /\ \E i, j \in Slots :
          /\ inv[i].st = "err" /\ inv[i].resp.status = 500
          /\ inv[j].st = "ok" /\ inv[j].result = BodyScore.canon

FatalPrefix(kind) ==
    IF kind = "uncaughtException" THEN "Uncaught exception: "
    ELSE "Unhandled promise rejection: "

\* One step, as C9 constrains it.
C9_Step ==
    /\ (fatal' # fatal /\ fatal'.kind \in {"uncaughtException", "unhandledRejection"}) =>
          /\ stderr' = Append(stderr,
                <<FatalPrefix(fatal'.kind)>> \o
                (IF fatal'.err.isError THEN fatal'.err.message ELSE <<"Unknown error">>) \o
                <<"\n">>)
          /\ stdout' = stdout
          /\ exitCode' # -1 /\ exitCode' # 0
          /\ inv' = inv
    /\ exitCode # -1 => UNCHANGED vars

\* C9: a step in which one of the two fatal handlers runs appends one line to
\* the diagnostic channel (the error's message, or 'Unknown error' when the
\* value is no Error), writes nothing to the transport stream and exits with
\* a non-zero status; once the process has exited nothing changes any more.
C9_FatalHandlers == [][C9_Step]_vars

C9_Witness ==
    /\ fatal.kind = "unhandledRejection" /\ ~fatal.err.isError
    /\ exitCode = 1
    /\ inv[1].st = "fetch"
    /\ stderr = << <<"Unhandled promise rejection: ", "Unknown error", "\n">> >>

\* What one invocation sends and returns, from its own inputs alone.
C10_Own(r) ==
    /\ r.kind = "tool" /\ r.st # "err" =>
          r.params = [has |-> TRUE, start_date |-> r.args.startDate,
                      end_date |-> r.args.endDate]
    /\ r.kind = "resource" =>
          r.params.has = (r.name \notin {"personal_info", "ring_configuration"})
    /\ (r.kind = "resource" /\ r.params.has) => r.params.end_date = ISODate(r.now)
    /\ r.st \in {"fetch", "json", "ok"} =>
          /\ r.url[3] = r.name
          /\ r.params.has =>
                (r.url[5] = r.params.start_date /\ r.url[7] = r.params.end_date)
          /\ ~r.params.has => Len(r.url) = 3
    /\ r.st = "ok" => r.result = r.resp.body.canon

\* C10: once the provider is constructed no step changes the catalog, the
\* registered resources and tools or the credential mode, and what each
\* invocation sends and returns is determined by its own category, arguments,
\* clock reading and upstream response.
C10_Stateless ==
    /\ [][provider.constructed => provider' = provider]_vars
    /\ [](\A i \in Used : C10_Own(inv[i]))

C10_Witness ==
    \E i, j \in Slots :
        /\ inv[i].st = "ok" /\ inv[j].st = "ok"
        /\ inv[i].name = "daily_sleep" /\ inv[j].name = "daily_sleep"
        /\ inv[i].kind = "resource" /\ inv[j].kind = "tool"
        /\ inv[i].params # inv[j].params

====
